---- MODULE Spec2Model ----
(***************************************************************************)
(* German POS tagger API (src/german_pos_api.py): two NLP pipelines loaded *)
(* once at import time, GET /health, and POST /tag with a strict spaCy ->  *)
(* Stanza fallback and one output normalizer per engine.                   *)
(*                                                                         *)
(* Strings the code inspects character by character (request text, Stanza  *)
(* feature strings, token texts) are sequences of one-character strings.   *)
(* Python's None is the empty tuple, a present value x is <<x>>.           *)
(***************************************************************************)
EXTENDS Naturals, Sequences, FiniteSets

VARIABLES nlp_spacy, nlp_stanza, loaded, pc, req, text, calls, resp, hresp

vars == <<nlp_spacy, nlp_stanza, loaded, pc, req, text, calls, resp, hresp>>

\* ---------------------------------------------------------------- bounds
MaxTextLen == 2
MaxFeatLen == 3
MaxTokens == 2

\* ------------------------------------------------------------- constants
None == <<>>

Some(x) == <<x>>

SPACY_MODEL == "de_core_news_lg"

STANZA_LANG == "de"

STANZA_MODEL == "stanza-" \o STANZA_LANG

\* Python truthiness of a pipeline handle / optional value.
bool(x) == x # None

SeqsUpTo(S, n) == UNION {[1..k -> S] : k \in 0..n}

RECURSIVE TotalLen(_)
TotalLen(ss) == IF ss = <<>> THEN 0 ELSE Len(Head(ss)) + TotalLen(Tail(ss))

\* ------------------------------------------------------------ str.strip
RECURSIVE lstrip(_)
lstrip(s) == IF s # <<>> /\ Head(s) = " " THEN lstrip(Tail(s)) ELSE s

RECURSIVE rstrip(_)
rstrip(s) == IF s # <<>> /\ s[Len(s)] = " " THEN rstrip(SubSeq(s, 1, Len(s) - 1)) ELSE s

strip_identity(s) == s

strip(s) == rstrip(lstrip(s))

\* ------------------------------------------------------------ str.split
\* Python's s.split(sep) for a one-character separator: every separator cuts.
RECURSIVE split(_, _)
split(s, sep) ==
    IF \A i \in 1..Len(s) : s[i] # sep
    THEN <<s>>
    ELSE LET i == CHOOSE k \in 1..Len(s) : s[k] = sep /\ \A j \in 1..(k - 1) : s[j] # sep
         IN  <<SubSeq(s, 1, i - 1)>> \o split(SubSeq(s, i + 1, Len(s)), sep)

contains(s, c) == \E i \in 1..Len(s) : s[i] = c

\* A dict is a set of <<key, value>> pairs with distinct keys; a dict
\* comprehension inserts its items in order, a later key replacing an earlier.
RECURSIVE dict_of(_)
dict_of(items) ==
    IF items = <<>>
    THEN {}
    ELSE LET n == Len(items)
             before == dict_of(SubSeq(items, 1, n - 1))
         IN  {p \in before : p[1] # items[n][1]} \cup {items[n]}

\* {kv.split("=")[0]: kv.split("=")[1] for kv in feats.split("|") if "=" in kv}
parse_feats(feats) ==
    LET kvs == SelectSeq(split(feats, "|"), LAMBDA kv : contains(kv, "="))
        item(kv) == <<split(kv, "=")[1], split(kv, "=")[2]>>
    IN  dict_of([n \in 1..Len(kvs) |-> item(kvs[n])])

\* ------------------------------------------------- request / responses
Texts == SeqsUpTo({" ", "a"}, MaxTextLen)

\* class TagRequest(BaseModel)
TagRequest ==
    [text : Texts, splitSentences : BOOLEAN, includeLemma : BOOLEAN, includeMorph : BOOLEAN]

NoResponse ==
    [status |-> 0, detail |-> "", model |-> "", transformer |-> FALSE, sentences |-> <<>>]

HTTPException(status_code, detail) ==
    [status |-> status_code, detail |-> detail, model |-> "", transformer |-> FALSE,
     sentences |-> <<>>]

empty_text_response == HTTPException(400, "Empty text")

unavailable_response_500 == HTTPException(500, "Internal Server Error")

unavailable_response == HTTPException(503, "No tagging provider available")

spacy_response_transformer(sents) ==
    [status |-> 200, detail |-> "", model |-> SPACY_MODEL, transformer |-> TRUE,
     sentences |-> sents]

spacy_response(sents) ==
    [status |-> 200, detail |-> "", model |-> SPACY_MODEL, transformer |-> FALSE,
     sentences |-> sents]

stanza_response_primary(sents) ==
    [status |-> 200, detail |-> "", model |-> SPACY_MODEL, transformer |-> FALSE,
     sentences |-> sents]

stanza_response(sents) ==
    [status |-> 200, detail |-> "", model |-> STANZA_MODEL, transformer |-> TRUE,
     sentences |-> sents]

\* ------------------------------------------------ what spaCy can return
\* A token's morph: to_dict() either raises or returns a dict.
SpacyTokens ==
    { [text |-> <<"a">>, pos_ |-> "NOUN", lemma_ |-> <<"a">>, is_space |-> FALSE,
       morph |-> [raises |-> FALSE, dict |-> {<<"Case", "Nom">>}]],
      [text |-> <<"a">>, pos_ |-> "VERB", lemma_ |-> <<>>, is_space |-> FALSE,
       morph |-> [raises |-> TRUE, dict |-> {}]],
      [text |-> <<" ">>, pos_ |-> "SPACE", lemma_ |-> <<" ">>, is_space |-> TRUE,
       morph |-> [raises |-> FALSE, dict |-> {}]] }

SpacySents == SeqsUpTo(SpacyTokens, MaxTokens) \ {<<>>}

\* A Doc: its sentences, or no sentence boundaries at all, in which case
\* iterating doc.sents raises.
SpacyDocs ==
    { [has_sents |-> TRUE, sents |-> ss] :
        ss \in {x \in SeqsUpTo(SpacySents, MaxTokens) \ {<<>>} : TotalLen(x) <= MaxTokens} }
    \cup { [has_sents |-> FALSE, sents |-> <<>>] }

\* --------------------------------------------------------- spaCy normalizer
\* lines 73-78: morph = {} unless include_morph; to_dict() raising gives {}
spacy_morph(t, include_morph) ==
    IF include_morph
    THEN IF t.morph.raises THEN {} ELSE t.morph.dict
    ELSE {}

spacy_token(t, include_lemma, include_morph) ==
    [text |-> t.text, pos |-> t.pos_,
     lemma |-> IF include_lemma THEN Some(t.lemma_) ELSE None,
     morph |-> spacy_morph(t, include_morph)]

spacy_to_tokens_raises_on_morph(doc, include_lemma, include_morph) ==
    \/ ~doc.has_sents
    \/ /\ include_morph
       /\ \E i \in 1..Len(doc.sents) : \E j \in 1..Len(doc.sents[i]) :
            ~doc.sents[i][j].is_space /\ doc.sents[i][j].morph.raises

\* Whether spacy_to_tokens raises: only the iteration of doc.sents can.
spacy_to_tokens_raises(doc, include_lemma, include_morph) == ~doc.has_sents

spacy_to_tokens(doc, include_lemma, include_morph) ==
    LET tok(t) == spacy_token(t, include_lemma, include_morph)
        sentence(sent) ==
            LET kept == SelectSeq(sent, LAMBDA t : ~t.is_space)
            IN  [tokens |-> [j \in 1..Len(kept) |-> tok(kept[j])]]
    IN  [i \in 1..Len(doc.sents) |-> sentence(doc.sents[i])]

\* ----------------------------------------------- what Stanza can return
FeatStrings == SeqsUpTo({"K", "v", "=", "|"}, MaxFeatLen)

StanzaWord(t, f) == [text |-> t, upos |-> "NOUN", lemma |-> <<"a">>, feats |-> f]

\* One-word documents over every feature string, and longer documents over
\* a few words (one of them whitespace-only).
StanzaWordsFew ==
    { StanzaWord(<<"a">>, None),
      StanzaWord(<<"a">>, Some(<<"K", "=", "v", "|", "v", "=", "K">>)),
      StanzaWord(<<" ">>, None) }

StanzaSentsFew == SeqsUpTo(StanzaWordsFew, MaxTokens) \ {<<>>}

StanzaDocs ==
    { [sentences |-> << <<StanzaWord(<<"a">>, Some(f))>> >>] : f \in FeatStrings }
    \cup
    { [sentences |-> ss] :
        ss \in {x \in SeqsUpTo(StanzaSentsFew, MaxTokens) \ {<<>>} : TotalLen(x) <= MaxTokens} }

\* -------------------------------------------------------- Stanza normalizer
\* lines 95-97
stanza_feats(w, include_morph) ==
    IF include_morph /\ bool(w.feats) /\ w.feats[1] # <<>>
    THEN parse_feats(w.feats[1])
    ELSE {}

stanza_token_always_lemma(w, include_lemma, include_morph) ==
    [text |-> w.text, pos |-> w.upos, lemma |-> Some(w.lemma),
     morph |-> stanza_feats(w, include_morph)]

stanza_token(w, include_lemma, include_morph) ==
    [text |-> w.text, pos |-> w.upos,
     lemma |-> IF include_lemma THEN Some(w.lemma) ELSE None,
     morph |-> stanza_feats(w, include_morph)]

stanza_to_tokens(doc, include_lemma, include_morph) ==
    LET tok(w) == stanza_token(w, include_lemma, include_morph)
        sentence(s) ==
            LET kept == SelectSeq(s, LAMBDA w : strip(w.text) # <<>>)
            IN  [tokens |-> [j \in 1..Len(kept) |-> tok(kept[j])]]
    IN  [i \in 1..Len(doc.sentences) |-> sentence(doc.sentences[i])]

\* ------------------------------------------------------------------ health
NoHealth ==
    [status |-> 0, ok |-> FALSE, providers |-> [spacy |-> FALSE, stanza |-> FALSE]]

health_response_and(spacy, stanza) ==
    [status |-> 200, ok |-> bool(spacy) /\ bool(stanza),
     providers |-> [spacy |-> bool(spacy), stanza |-> bool(stanza)]]

health_response(spacy, stanza) ==
    [status |-> 200, ok |-> bool(spacy) \/ bool(stanza),
     providers |-> [spacy |-> bool(spacy), stanza |-> bool(stanza)]]

\* -------------------------------------------------------------------- state
\* Module import: each load either succeeds or is caught and leaves None.
Init ==
    /\ nlp_spacy \in {None, Some(SPACY_MODEL)}
    /\ nlp_stanza \in {None, Some(STANZA_LANG)}
    /\ loaded = [spacy |-> bool(nlp_spacy), stanza |-> bool(nlp_stanza)]
    /\ pc = "idle"
    /\ req = None
    /\ text = <<>>
    /\ calls = <<>>
    /\ resp = NoResponse
    /\ hresp = NoHealth

Call(engine, raised, doc) == [engine |-> engine, raised |-> raised, doc |-> doc]

\* GET /health
health ==
    /\ hresp' = health_response(nlp_spacy, nlp_stanza)
    /\ UNCHANGED <<nlp_spacy, nlp_stanza, loaded, pc, req, text, calls, resp>>

\* POST /tag, lines 119-122: trim and validate.
tag_begin(r) ==
    /\ pc = "idle"
    /\ req' = r
    /\ text' = strip(r.text)
    /\ calls' = <<>>
    /\ IF text' = <<>>
       THEN resp' = empty_text_response /\ pc' = "done"
       ELSE resp' = NoResponse /\ pc' = "spacy"
    /\ UNCHANGED <<nlp_spacy, nlp_stanza, loaded, hresp>>

\* A retrying variant of the primary tier.
tag_spacy_retry ==
    /\ pc = "spacy"
    /\ \/ /\ ~bool(nlp_spacy)
          /\ pc' = "stanza"
          /\ UNCHANGED <<calls, resp>>
       \/ /\ bool(nlp_spacy)
          /\ calls' = calls \o <<Call("spacy", TRUE, None), Call("spacy", TRUE, None)>>
          /\ pc' = "stanza"
          /\ UNCHANGED resp
       \/ /\ bool(nlp_spacy)
          /\ \E doc \in SpacyDocs :
               /\ calls' = Append(calls, Call("spacy", FALSE, Some(doc)))
               /\ IF spacy_to_tokens_raises(doc, req.includeLemma, req.includeMorph)
                  THEN pc' = "stanza" /\ UNCHANGED resp
                  ELSE /\ resp' = spacy_response(
                                     spacy_to_tokens(doc, req.includeLemma, req.includeMorph))
                       /\ pc' = "done"
    /\ UNCHANGED <<nlp_spacy, nlp_stanza, loaded, req, text, hresp>>

\* lines 124-131: the primary tier.
tag_spacy ==
    /\ pc = "spacy"
    /\ \/ /\ ~bool(nlp_spacy)
          /\ pc' = "stanza"
          /\ UNCHANGED <<calls, resp>>
       \/ /\ bool(nlp_spacy)
          /\ calls' = Append(calls, Call("spacy", TRUE, None))
          /\ pc' = "stanza"
          /\ UNCHANGED resp
       \/ /\ bool(nlp_spacy)
          /\ \E doc \in SpacyDocs :
               /\ calls' = Append(calls, Call("spacy", FALSE, Some(doc)))
               /\ IF spacy_to_tokens_raises(doc, req.includeLemma, req.includeMorph)
                  THEN pc' = "stanza" /\ UNCHANGED resp
                  ELSE /\ resp' = spacy_response(
                                     spacy_to_tokens(doc, req.includeLemma, req.includeMorph))
                       /\ pc' = "done"
    /\ UNCHANGED <<nlp_spacy, nlp_stanza, loaded, req, text, hresp>>

\* A variant of the backup tier that answers 200 with nothing when Stanza raises.
tag_stanza_swallow ==
    /\ pc = "stanza"
    /\ \/ /\ ~bool(nlp_stanza)
          /\ resp' = unavailable_response
          /\ UNCHANGED calls
       \/ /\ bool(nlp_stanza)
          /\ calls' = Append(calls, Call("stanza", TRUE, None))
          /\ resp' = stanza_response(<<>>)
       \/ /\ bool(nlp_stanza)
          /\ \E doc \in StanzaDocs :
               /\ calls' = Append(calls, Call("stanza", FALSE, Some(doc)))
               /\ resp' = stanza_response(
                             stanza_to_tokens(doc, req.includeLemma, req.includeMorph))
    /\ pc' = "done"
    /\ UNCHANGED <<nlp_spacy, nlp_stanza, loaded, req, text, hresp>>

\* lines 133-142: the backup tier, then 503.
tag_stanza ==
    /\ pc = "stanza"
    /\ \/ /\ ~bool(nlp_stanza)
          /\ resp' = unavailable_response
          /\ UNCHANGED calls
       \/ /\ bool(nlp_stanza)
          /\ calls' = Append(calls, Call("stanza", TRUE, None))
          /\ resp' = unavailable_response
       \/ /\ bool(nlp_stanza)
          /\ \E doc \in StanzaDocs :
               /\ calls' = Append(calls, Call("stanza", FALSE, Some(doc)))
               /\ resp' = stanza_response(
                             stanza_to_tokens(doc, req.includeLemma, req.includeMorph))
    /\ pc' = "done"
    /\ UNCHANGED <<nlp_spacy, nlp_stanza, loaded, req, text, hresp>>

\* The response (or HTTPException) leaves the handler; its locals are gone.
tag_return ==
    /\ pc = "done"
    /\ pc' = "idle"
    /\ req' = None
    /\ text' = <<>>
    /\ calls' = <<>>
    /\ resp' = NoResponse
    /\ UNCHANGED <<nlp_spacy, nlp_stanza, loaded, hresp>>

Next ==
    \/ health
    \/ \E r \in TagRequest : tag_begin(r)
    \/ tag_spacy
    \/ tag_stanza
    \/ tag_return

Spec == Init /\ [][Next]_vars

\* ================================================================ properties
IsBlank(s) == \A i \in 1..Len(s) : s[i] = " "

Done == pc = "done"

NonEmptyRequestDone == Done /\ ~IsBlank(req.text)

CallsOf(engine) == {i \in 1..Len(calls) : calls[i].engine = engine}

\* The primary tier failed in call i: the pipeline raised, or its normalizer did.
SpacyFailedAt(i) ==
    /\ calls[i].engine = "spacy"
    /\ calls[i].raised \/ ~calls[i].doc[1].has_sents

SpacySucceededAt(i) ==
    /\ calls[i].engine = "spacy"
    /\ ~calls[i].raised
    /\ calls[i].doc[1].has_sents

StanzaSucceededAt(i) == calls[i].engine = "stanza" /\ ~calls[i].raised

IsPrimaryAnswer == resp.status = 200 /\ resp.transformer = FALSE /\ resp.model = SPACY_MODEL

IsSecondaryAnswer == resp.status = 200 /\ resp.transformer = TRUE /\ resp.model = STANZA_MODEL

IsUnavailable == resp.status = 503 /\ resp.detail = "No tagging provider available"

\* C1 as stated: a request with non-empty trimmed text, whose primary pipeline
\* is available and does not raise when invoked on the text, is answered 200
\* with transformer false and the primary model identifier.
C1_PrimaryInvokedAnswers ==
    ( /\ NonEmptyRequestDone
      /\ loaded.spacy
      /\ \A i \in CallsOf("spacy") : ~calls[i].raised )
    => IsPrimaryAnswer

\* C1 amended: a request with non-empty trimmed text, whose primary pipeline is
\* available and raises neither when invoked on the text nor while its document
\* is normalized, is answered 200 with transformer false and the primary model
\* identifier, whatever the flags and the state of the secondary pipeline.
C1_PrimarySucceededAnswers ==
    ( /\ NonEmptyRequestDone
      /\ loaded.spacy
      /\ \A i \in CallsOf("spacy") : SpacySucceededAt(i) )
    => IsPrimaryAnswer

C1_Witness ==
    /\ NonEmptyRequestDone
    /\ loaded.spacy /\ loaded.stanza
    /\ \E i \in CallsOf("spacy") : SpacySucceededAt(i)
    /\ ~req.includeLemma /\ ~req.splitSentences
    /\ IsPrimaryAnswer

\* C2: a request with non-empty trimmed text, whose primary pipeline is
\* unavailable or raises, and whose secondary pipeline is available and does
\* not raise, is answered 200 with transformer true and the secondary model
\* identifier.
C2_SecondaryAnswers ==
    ( /\ NonEmptyRequestDone
      /\ ~loaded.spacy \/ \E i \in CallsOf("spacy") : calls[i].raised
      /\ loaded.stanza
      /\ \A i \in CallsOf("stanza") : ~calls[i].raised )
    => IsSecondaryAnswer

C2_Witness ==
    /\ NonEmptyRequestDone
    /\ \E i \in CallsOf("spacy") : calls[i].raised
    /\ \E i \in CallsOf("stanza") : StanzaSucceededAt(i)
    /\ IsSecondaryAnswer

\* C3 as stated: with neither pipeline loaded, every POST /tag is answered 503,
\* whatever its text.
C3_NoPipelineAlways503 ==
    (Done /\ ~loaded.spacy /\ ~loaded.stanza) => resp.status = 503

\* C3 amended: with neither pipeline loaded, every POST /tag whose trimmed text
\* is non-empty is answered 503 "No tagging provider available".
C3_NoPipelineNonEmpty503 ==
    (NonEmptyRequestDone /\ ~loaded.spacy /\ ~loaded.stanza) => IsUnavailable

C3_Witness ==
    /\ NonEmptyRequestDone
    /\ ~loaded.spacy /\ ~loaded.stanza
    /\ Len(req.text) > 1
    /\ IsUnavailable

\* C4: a request whose text is empty or whitespace-only is answered 400 "Empty
\* text" in every state of the registry, and no pipeline is invoked for it.
C4_EmptyTextRejected ==
    (pc # "idle" /\ IsBlank(req.text)) =>
        /\ Done
        /\ resp.status = 400
        /\ resp.detail = "Empty text"
        /\ calls = <<>>

C4_Witness ==
    /\ Done
    /\ IsBlank(req.text) /\ Len(req.text) > 0
    /\ loaded.spacy /\ loaded.stanza
    /\ resp.status = 400

\* C5: a request with non-empty trimmed text is answered 503 "No tagging
\* provider available" iff each engine was unavailable or failed in that
\* request; otherwise the 200 response is the normalized output of exactly one
\* engine's document.
C5_UnavailableIffBothFailed ==
    NonEmptyRequestDone =>
        LET spacyFailed == ~loaded.spacy \/ \E i \in CallsOf("spacy") : SpacyFailedAt(i)
            stanzaFailed == ~loaded.stanza \/ \E i \in CallsOf("stanza") : calls[i].raised
            fromSpacy ==
                /\ CallsOf("stanza") = {}
                /\ \E i \in CallsOf("spacy") :
                     /\ SpacySucceededAt(i)
                     /\ resp = spacy_response(
                                  spacy_to_tokens(calls[i].doc[1], req.includeLemma,
                                                  req.includeMorph))
            fromStanza ==
                /\ \A i \in CallsOf("spacy") : SpacyFailedAt(i)
                /\ \E i \in CallsOf("stanza") :
                     /\ StanzaSucceededAt(i)
                     /\ resp = stanza_response(
                                  stanza_to_tokens(calls[i].doc[1], req.includeLemma,
                                                   req.includeMorph))
        IN  /\ IsUnavailable <=> (spacyFailed /\ stanzaFailed)
            /\ resp.status = 503 <=> IsUnavailable
            /\ ~(spacyFailed /\ stanzaFailed) => (fromSpacy /\ ~fromStanza) \/ (fromStanza /\ ~fromSpacy)

C5_Witness ==
    /\ NonEmptyRequestDone
    /\ loaded.spacy /\ loaded.stanza
    /\ Len(calls) = 2
    /\ calls[1].engine = "spacy" /\ ~calls[1].raised /\ ~calls[1].doc[1].has_sents
    /\ calls[2].engine = "stanza" /\ calls[2].raised
    /\ IsUnavailable

\* C6: in every reachable state both pipelines are exactly as loaded at startup,
\* and every /health response has ok = (some pipeline loaded at startup) and a
\* providers map reporting each engine exactly as loaded at startup.
C6_HealthReflectsStartup ==
    /\ bool(nlp_spacy) = loaded.spacy
    /\ bool(nlp_stanza) = loaded.stanza
    /\ hresp # NoHealth =>
         /\ hresp.status = 200
         /\ hresp.ok = (loaded.spacy \/ loaded.stanza)
         /\ hresp.providers.spacy = loaded.spacy
         /\ hresp.providers.stanza = loaded.stanza

C6_Witness ==
    /\ hresp.status = 200
    /\ hresp.ok
    /\ loaded.spacy /\ ~loaded.stanza
    /\ Done
    /\ \E i \in CallsOf("spacy") : calls[i].raised

\* C7: in every 200 response of POST /tag every token's lemma is present iff
\* the request's includeLemma is true.
C7_LemmaIffIncludeLemma ==
    (Done /\ resp.status = 200) =>
        \A i \in 1..Len(resp.sentences) :
            \A j \in 1..Len(resp.sentences[i].tokens) :
                (resp.sentences[i].tokens[j].lemma # None) <=> req.includeLemma

C7_Witness ==
    /\ Done
    /\ IsSecondaryAnswer
    /\ ~req.includeLemma
    /\ \E i \in 1..Len(resp.sentences) :
         /\ Len(resp.sentences[i].tokens) = 2
         /\ resp.sentences[i].tokens[2].lemma = None

\* C8: within one request each pipeline is invoked at most once, the secondary
\* only after the primary was found unavailable or failed, and the primary is
\* never invoked after it failed.
C8_StrictOrderedFallback ==
    /\ Cardinality(CallsOf("spacy")) <= 1
    /\ Cardinality(CallsOf("stanza")) <= 1
    /\ \A i \in CallsOf("stanza") :
         \/ ~loaded.spacy
         \/ \E j \in 1..(i - 1) : SpacyFailedAt(j)
    /\ \A i \in CallsOf("spacy") : \A j \in 1..(i - 1) : ~SpacyFailedAt(j)
    /\ \A i \in CallsOf("spacy") : loaded.spacy
    /\ \A i \in CallsOf("stanza") : loaded.stanza

C8_Witness ==
    /\ Done
    /\ Len(calls) = 2
    /\ calls[1].engine = "spacy" /\ calls[1].raised
    /\ calls[2].engine = "stanza"

\* The feature string parsed as C9 states it: each pair split on its first "="
\* only, pairs without "=" skipped.
first_eq_item(kv) ==
    LET k == CHOOSE n \in 1..Len(kv) : kv[n] = "=" /\ \A j \in 1..(n - 1) : kv[j] # "="
    IN  <<SubSeq(kv, 1, k - 1), SubSeq(kv, k + 1, Len(kv))>>

first_eq_feats(feats) ==
    LET kvs == SelectSeq(split(feats, "|"), LAMBDA kv : contains(kv, "="))
    IN  dict_of([n \in 1..Len(kvs) |-> first_eq_item(kvs[n])])

\* C9: in a secondary-engine response with includeMorph, each token's morph is
\* its feature string parsed pair by pair, each pair split on its first "="
\* only (the value is everything after it), pairs without "=" skipped.
C9_MorphSplitsOnFirstEquals ==
    (Done /\ IsSecondaryAnswer /\ req.includeMorph) =>
        \A c \in CallsOf("stanza") :
            ~calls[c].raised =>
                LET d == calls[c].doc[1]
                IN  /\ Len(resp.sentences) = Len(d.sentences)
                    /\ \A i \in 1..Len(d.sentences) :
                         LET ws == SelectSeq(d.sentences[i], LAMBDA w : ~IsBlank(w.text))
                             ts == resp.sentences[i].tokens
                         IN  /\ Len(ts) = Len(ws)
                             /\ \A j \in 1..Len(ws) :
                                  ts[j].morph =
                                      IF ws[j].feats # None /\ ws[j].feats[1] # <<>>
                                      THEN first_eq_feats(ws[j].feats[1])
                                      ELSE {}

====
